---------------------------- MODULE Spec2Model ----------------------------
(***************************************************************************)
(* The intent-to-HTTP pipeline of llm_connection_v4.py / _v5.py:           *)
(* prompt_to_api (literal fast path, classification, JSON block parsing,   *)
(* defaulting), run_api, describe_response and the orchestrating try block *)
(* of user_to_llm.                                                         *)
(*                                                                         *)
(* A text is a sequence of tokens (each token a string): whitespace,       *)
(* punctuation, words, and JSON scalar literals.  Regular expressions and  *)
(* json.loads are computed over these token sequences.                     *)
(***************************************************************************)
EXTENDS Integers, Sequences, FiniteSets, TLC

(***************************************************************************)
(* Bounds of the explored inputs.                                          *)
(***************************************************************************)
\* longest run of whitespace put around markers and Gateway outputs
MaxPad == 1

(***************************************************************************)
(* Program constants.                                                      *)
(***************************************************************************)
DEFAULT_URL == "http://localhost:5000/price"
\* the timeout= argument of both requests.request calls in run_api
RequestTimeout == 30

(***************************************************************************)
(* Python values.  A JSON value is a pair <<tag, content>>; a dict is a    *)
(* function from its keys to JSON values.                                  *)
(***************************************************************************)
None == <<"null", "null">>
JStr(s) == <<"str", s>>
JNum(n) == <<"num", n>>
JObj(d) == <<"obj", d>>
EmptyDict == <<>>

IsDictValue(v) == v[1] = "obj"
IsStrValue(v) == v[1] = "str"

\* Python truthiness of a JSON value: None, "", 0 and {} are falsy
Truthy(v) ==
    CASE v[1] = "null" -> FALSE
      [] v[1] = "str" -> v[2] # ""
      [] v[1] = "num" -> v[2] # "0"
      [] v[1] = "obj" -> v[2] # EmptyDict
      [] OTHER -> TRUE

\* dict.get(key, default)
DictGet(d, k, default) == IF k \in DOMAIN d THEN d[k] ELSE default

\* d[k] = v
DictSet(d, k, v) == [x \in (DOMAIN d) \cup {k} |-> IF x = k THEN v ELSE d[x]]

\* dict.setdefault(key, default)
SetDefault(d, k, default) == IF k \in DOMAIN d THEN d ELSE DictSet(d, k, default)

(***************************************************************************)
(* Tokens.                                                                 *)
(***************************************************************************)
Spaces == {" ", "\n"}
IsSpace(t) == t \in Spaces

Quote(s) == "\"" \o s \o "\""

\* contents of the string literals that occur in the explored texts
StrContents ==
    {"method", "url", "headers", "payload", "Content-Type", "application/json",
     "GET", "POST", "get", "DELETE", "", "http://target/admin", "a", "s", "timeout"}
NumLits == {"0", "1"}

\* the string-literal tokens and the contents each stands for
StrToks == {Quote(s) : s \in StrContents}
StrTokContent == [t \in StrToks |-> CHOOSE s \in StrContents : t = Quote(s)]

IsStrTok(t) == t \in StrToks
Unquote(t) == StrTokContent[t]

\* str.strip()
RECURSIVE LStrip(_)
LStrip(text) ==
    IF text # <<>> /\ IsSpace(Head(text)) THEN LStrip(Tail(text)) ELSE text

RECURSIVE RStrip(_)
RStrip(text) ==
    IF text # <<>> /\ IsSpace(text[Len(text)])
    THEN RStrip(SubSeq(text, 1, Len(text) - 1))
    ELSE text

\* str.lstrip() in place of str.strip()
StripLeftOnly(text) == LStrip(text)

Strip(text) == RStrip(LStrip(text))

\* str.startswith(prefix)
StartsWith(text, prefix) ==
    /\ Len(text) >= Len(prefix)
    /\ SubSeq(text, 1, Len(prefix)) = prefix

\* the characters of a run of tokens as one string
RECURSIVE Join(_)
Join(text) == IF text = <<>> THEN "" ELSE Head(text) \o Join(Tail(text))

(***************************************************************************)
(* json.loads over tokens: objects, strings, numbers and null, with        *)
(* whitespace allowed between tokens; a later duplicate key wins.          *)
(***************************************************************************)
RECURSIVE SkipWs(_, _)
SkipWs(toks, i) ==
    IF i <= Len(toks) /\ IsSpace(toks[i]) THEN SkipWs(toks, i + 1) ELSE i

ParseFail == [ok |-> FALSE, val |-> None, next |-> 0]
ParseOk(v, n) == [ok |-> TRUE, val |-> v, next |-> n]

RECURSIVE ParseValue(_, _)
RECURSIVE ParsePairs(_, _, _)

ParseValue(toks, i) ==
    LET j == SkipWs(toks, i) IN
    IF j > Len(toks) THEN ParseFail
    ELSE IF toks[j] = "{" THEN
        LET k == SkipWs(toks, j + 1) IN
        IF k <= Len(toks) /\ toks[k] = "}"
        THEN ParseOk(JObj(EmptyDict), k + 1)
        ELSE ParsePairs(toks, j + 1, EmptyDict)
    ELSE IF IsStrTok(toks[j]) THEN ParseOk(JStr(Unquote(toks[j])), j + 1)
    ELSE IF toks[j] \in NumLits THEN ParseOk(JNum(toks[j]), j + 1)
    ELSE IF toks[j] = "null" THEN ParseOk(None, j + 1)
    ELSE ParseFail

ParsePairs(toks, i, acc) ==
    LET j == SkipWs(toks, i) IN
    IF j > Len(toks) \/ ~IsStrTok(toks[j]) THEN ParseFail
    ELSE
    LET k == SkipWs(toks, j + 1) IN
    IF k > Len(toks) \/ toks[k] # ":" THEN ParseFail
    ELSE
    LET v == ParseValue(toks, k + 1) IN
    IF ~v.ok THEN ParseFail
    ELSE
    LET m == SkipWs(toks, v.next)
        acc2 == DictSet(acc, Unquote(toks[j]), v.val)
    IN
    IF m > Len(toks) THEN ParseFail
    ELSE IF toks[m] = "," THEN ParsePairs(toks, m + 1, acc2)
    ELSE IF toks[m] = "}" THEN ParseOk(JObj(acc2), m + 1)
    ELSE ParseFail

\* json.loads(text): [ok |-> FALSE] stands for the raised exception
JsonLoads(text) ==
    LET r == ParseValue(text, 1) IN
    IF r.ok /\ SkipWs(text, r.next) > Len(text) THEN r ELSE ParseFail

(***************************************************************************)
(* json.dumps-like rendering, used to build the explored input texts.      *)
(* spaced = TRUE puts a blank after ':' and ','.                           *)
(***************************************************************************)
KeyOrder == <<"method", "url", "headers", "payload", "Content-Type", "a">>

RECURSIVE Render(_, _)
RECURSIVE RenderPairs(_, _, _, _)

Render(v, spaced) ==
    CASE v[1] = "null" -> <<"null">>
      [] v[1] = "str" -> <<Quote(v[2])>>
      [] v[1] = "num" -> <<v[2]>>
      [] v[1] = "obj" -> <<"{">> \o RenderPairs(v[2], 1, TRUE, spaced) \o <<"}">>

RenderPairs(d, n, first, spaced) ==
    IF n > Len(KeyOrder) THEN <<>>
    ELSE IF KeyOrder[n] \notin DOMAIN d THEN RenderPairs(d, n + 1, first, spaced)
    ELSE (IF first THEN <<>> ELSE IF spaced THEN <<",", " ">> ELSE <<",">>)
         \o <<Quote(KeyOrder[n])>>
         \o (IF spaced THEN <<":", " ">> ELSE <<":">>)
         \o Render(d[KeyOrder[n]], spaced)
         \o RenderPairs(d, n + 1, FALSE, spaced)

(***************************************************************************)
(* Regular expressions of the pipeline, over tokens.  A marker word is one *)
(* token, so a match that starts inside a longer word is not represented.  *)
(***************************************************************************)
NoMatch == [found |-> FALSE, group |-> <<>>]

Positions(text, t) == {i \in 1..Len(text) : text[i] = t}
Min(S) == CHOOSE m \in S : \A n \in S : m <= n
Max(S) == CHOOSE m \in S : \A n \in S : m >= n

\* the greedy, DOTALL span  {.*}  anchored at position b: from b to the last
\* closing brace of the text
GreedySpan(text, b) ==
    LET closes == {j \in Positions(text, "}") : j > b} IN
    IF b <= Len(text) /\ text[b] = "{" /\ closes # {}
    THEN [found |-> TRUE, group |-> SubSeq(text, b, Max(closes))]
    ELSE NoMatch

\* re.search(r'(\{.*\})', text, re.DOTALL)
SearchBraces(text) ==
    LET opens == {i \in Positions(text, "{") : GreedySpan(text, i).found} IN
    IF opens = {} THEN NoMatch ELSE GreedySpan(text, Min(opens))

\* position of the token that follows  <marker>\s*:\s*  started at i, or 0
AfterMarker(text, marker, i) ==
    IF i > Len(text) \/ text[i] # marker THEN 0
    ELSE LET c == SkipWs(text, i + 1) IN
         IF c > Len(text) \/ text[c] # ":" THEN 0
         ELSE SkipWs(text, c + 1)

\* re.search(r'Payload\s*:\s*({.*})', user_goal, re.DOTALL)
SearchPayload(text) ==
    LET starts == {i \in 1..Len(text) :
                     /\ AfterMarker(text, "Payload", i) # 0
                     /\ GreedySpan(text, AfterMarker(text, "Payload", i)).found}
    IN IF starts = {} THEN NoMatch
       ELSE GreedySpan(text, AfterMarker(text, "Payload", Min(starts)))

\* the maximal run of non-whitespace tokens that starts at u
RECURSIVE NonSpaceRun(_, _)
NonSpaceRun(text, u) ==
    IF u > Len(text) \/ IsSpace(text[u]) THEN <<>>
    ELSE <<text[u]>> \o NonSpaceRun(text, u + 1)

\* re.search(r'URL\s*:\s*(\S+)', user_goal)
SearchUrl(text) ==
    LET starts == {i \in 1..Len(text) :
                     /\ AfterMarker(text, "URL", i) # 0
                     /\ AfterMarker(text, "URL", i) <= Len(text)}
    IN IF starts = {} THEN NoMatch
       ELSE [found |-> TRUE,
             group |-> NonSpaceRun(text, AfterMarker(text, "URL", Min(starts)))]

(***************************************************************************)
(* prompt_to_api, describe_response and run_api as functions.              *)
(***************************************************************************)
JsonContentType == JObj("Content-Type" :> JStr("application/json"))

\* the fast path without the URL-marker lookup
LiteralFastPathFallbackOnly(user_goal) ==
    LET m == SearchPayload(user_goal)
        p == JsonLoads(m.group)
    IN IF m.found /\ p.ok
       THEN [matched |-> TRUE,
             spec |-> [method |-> JStr("POST"),
                       url |-> JStr(DEFAULT_URL),
                       headers |-> JsonContentType,
                       payload |-> p.val]]
       ELSE [matched |-> FALSE, spec |-> EmptyDict]

\* the fast path of prompt_to_api: [matched |-> FALSE] when it falls through
LiteralFastPath(user_goal) ==
    LET m == SearchPayload(user_goal)
        p == JsonLoads(m.group)
        mu == SearchUrl(user_goal)
        url == IF mu.found THEN Join(mu.group) ELSE DEFAULT_URL
    IN IF m.found /\ p.ok
       THEN [matched |-> TRUE,
             spec |-> [method |-> JStr("POST"),
                       url |-> JStr(url),
                       headers |-> JsonContentType,
                       payload |-> p.val]]
       ELSE [matched |-> FALSE, spec |-> EmptyDict]

\* the classification prompt without the user message
ClassifyPromptNoUserText(user_goal) ==
    <<"SYSTEM_POLICY", "\n", "\n", "User message:", "\n">>
    \o <<"\n", "\n", "Return either PLAIN_TEXT: ... or the single JSON object.">>

\* the prompt built by _classify_or_spec
ClassifyPrompt(user_goal) ==
    <<"SYSTEM_POLICY", "\n", "\n", "User message:", "\n">>
    \o user_goal
    \o <<"\n", "\n", "Return either PLAIN_TEXT: ... or the single JSON object.">>

\* the prompt built by describe_response
DescribePrompt(response_text) ==
    <<"SUMMARIZE_INSTRUCTION", "\n", "\n", "API response:", "\n">> \o response_text

PlainMarker == <<"PLAIN_TEXT", ":">>

\* resp[len("PLAIN_TEXT:"):] without the strip
PlainAnswerUnstripped(resp) == SubSeq(resp, Len(PlainMarker) + 1, Len(resp))

\* resp[len("PLAIN_TEXT:"):].strip()
PlainAnswer(resp) == Strip(SubSeq(resp, Len(PlainMarker) + 1, Len(resp)))

\* _extract_json_block: the parsed value, or None
ExtractJsonBlock(text) ==
    LET m == SearchBraces(text)
        p == JsonLoads(m.group)
    IN IF m.found /\ p.ok THEN p.val ELSE None

\* the defaulting with headers assigned instead of defaulted
NormalizeOverwriteHeaders(spec) ==
    LET s1 == DictSet(spec, "headers", JsonContentType)
        s2 == SetDefault(s1, "payload", None)
    IN IF ~Truthy(DictGet(s2, "url", None))
       THEN DictSet(s2, "url", JStr(DEFAULT_URL))
       ELSE s2

\* the defaulting with the url resolved against the fallback URL
NormalizeUrlJoined(spec) ==
    LET s1 == SetDefault(spec, "headers", JsonContentType)
        s2 == SetDefault(s1, "payload", None)
        url == DictGet(s2, "url", None)
    IN IF ~Truthy(url)
       THEN DictSet(s2, "url", JStr(DEFAULT_URL))
       ELSE IF IsStrValue(url) THEN DictSet(s2, "url", JStr(DEFAULT_URL \o url[2]))
       ELSE s2

\* the defaulting of prompt_to_api on the parsed dict
Normalize(spec) ==
    LET s1 == SetDefault(spec, "headers", JsonContentType)
        s2 == SetDefault(s1, "payload", None)
    IN IF ~Truthy(DictGet(s2, "url", None))
       THEN DictSet(s2, "url", JStr(DEFAULT_URL))
       ELSE s2

\* what prompt_to_api returns for the Gateway's classification output:
\* <<"str", text>> or <<"dict", spec>>
ResultOfClassification(raw) ==
    LET resp == Strip(raw)
        spec == ExtractJsonBlock(resp)
    IN IF StartsWith(resp, PlainMarker) THEN <<"str", PlainAnswer(resp)>>
       ELSE IF Truthy(spec) THEN <<"dict", Normalize(spec[2])>>
       ELSE <<"str", resp>>

\* str.upper() on the explored method strings
Upper(s) == CASE s = "get" -> "GET" [] s = "a" -> "A" [] s = "s" -> "S" [] OTHER -> s

\* headers or {}
HeadersOrEmpty(headers) == IF Truthy(headers) THEN headers ELSE JObj(EmptyDict)

\* run_api with another timeout on the GET branch
RequestArgsShortGetTimeout(method, url, headers, payload) ==
    IF Upper(method[2]) = "GET"
    THEN [method |-> method[2], url |-> url, headers |-> HeadersOrEmpty(headers),
          params |-> IF IsDictValue(payload) THEN payload ELSE None,
          json |-> None, timeout |-> 2]
    ELSE [method |-> method[2], url |-> url, headers |-> HeadersOrEmpty(headers),
          params |-> None,
          json |-> payload, timeout |-> RequestTimeout]

\* the arguments run_api passes to requests.request (params and json default
\* to None when the keyword is not passed)
RequestArgs(method, url, headers, payload) ==
    IF Upper(method[2]) = "GET"
    THEN [method |-> method[2], url |-> url, headers |-> HeadersOrEmpty(headers),
          params |-> IF IsDictValue(payload) THEN payload ELSE None,
          json |-> None, timeout |-> RequestTimeout]
    ELSE [method |-> method[2], url |-> url, headers |-> HeadersOrEmpty(headers),
          params |-> None,
          json |-> payload, timeout |-> RequestTimeout]

\* the timeouts requests applies to a call: a single number given as timeout=
\* bounds the connect phase and the read phase alike
ConnectTimeout(req) == req.timeout
ReadTimeout(req) == req.timeout

\* the failure text without its prefix
FailureTextBare(cause) == <<cause>>

\* f"Request failed: {e}"
FailureText(cause) == <<"Request failed: ", cause>>

\* describe_response called before run_api
AfterPromptToApiDescribeFirst(result) == IF result[1] = "dict" THEN "describe" ELSE "print"

\* user_to_llm after prompt_to_api returned: the isinstance(result, dict) branch
AfterPromptToApi(result) == IF result[1] = "dict" THEN "run_api" ELSE "print"

(***************************************************************************)
(* The explored inputs.                                                    *)
(***************************************************************************)
Pad(n) == [i \in 1..n |-> " "]

\* how a user text is composed: what precedes the payload marker, the marker
\* with its whitespace, the text after the marker, and what follows it
UserShapes ==
    {g \in [pre : {"none", "url"}, marker : BOOLEAN, pad : 0..MaxPad,
            body : {"empty", "nested", "bad", "open", "none"},
            suf : {"none", "url", "brace"}] :
        /\ ~g.marker => (g.pad = 0 /\ g.body \in {"none", "nested"})
        /\ (~g.marker \/ g.body \in {"bad", "none"}) => (g.pre = "none" /\ g.suf = "none")}

NestedPayload == JObj([a |-> JObj([a |-> JStr("s")])])

BodyObject(g) == IF g.body = "empty" THEN JObj(EmptyDict) ELSE NestedPayload

UserText(g) ==
    (IF g.pre = "url" THEN <<"URL", ":", " ", "http://target/admin", " ">>
     ELSE <<>>)
    \o (IF g.marker THEN <<"Payload">> \o Pad(g.pad) \o <<":">> \o Pad(g.pad)
        ELSE <<"please", " ">>)
    \o (CASE g.body = "empty" -> <<"{", "}">>
          [] g.body = "nested" -> Render(NestedPayload, TRUE)
          [] g.body = "bad" -> <<"{", "a", "}">>
          [] g.body = "open" -> <<"{", Quote("a"), ":", "1">>
          [] g.body = "none" -> <<"hello">>)
    \o (CASE g.suf = "none" -> <<>>
          [] g.suf = "url" -> <<"\n", "URL">> \o Pad(g.pad) \o <<":", "http://other", "/x">>
          [] g.suf = "brace" -> <<" ", "}">>)

\* the objects a Gateway may put in its classification output
MethodChoices == {<<"absent">>, JStr("GET"), JStr("get"), JStr("POST"), JStr("DELETE"), None}
UrlChoices == {<<"absent">>, JStr(""), None, JNum("0"), JStr("http://target/admin")}
RestChoices ==
    {<<<<"absent">>, <<"absent">>>>,
     <<JObj([a |-> JStr("s")]), JObj([a |-> JNum("1")])>>,
     <<None, JStr("s")>>,
     <<JObj(EmptyDict), JNum("0")>>}

Candidate(m, u, h, p) ==
    LET keys == {k \in {"method", "url", "headers", "payload"} :
                   \/ k = "method" /\ m # <<"absent">>
                   \/ k = "url" /\ u # <<"absent">>
                   \/ k = "headers" /\ h # <<"absent">>
                   \/ k = "payload" /\ p # <<"absent">>}
    IN [k \in keys |-> CASE k = "method" -> m [] k = "url" -> u
                         [] k = "headers" -> h [] k = "payload" -> p]

Candidates ==
    {Candidate(m, u, r[1], r[2]) : m \in MethodChoices, u \in UrlChoices, r \in RestChoices}

\* texts a Gateway may return for the classification prompt, before padding
ClassificationCores ==
    {Render(JObj(c), FALSE) : c \in Candidates}
    \cup {<<"Sure", ":", " ">> \o Render(JObj(c), TRUE) \o <<" ", "done">> :
            c \in {d \in Candidates : DictGet(d, "payload", None) = JObj([a |-> JNum("1")])}}
    \cup {PlainMarker \o <<" ", "hi", " ", "there">>,
          PlainMarker \o <<"\n", "{", "}">>,
          PlainMarker,
          <<"PLAIN_TEXT", " ", ":", "hi">>,
          <<"Answer", " ">> \o PlainMarker \o <<"hi">>,
          <<"I am unable to assist you with that request.">>,
          <<"{", "oops", "}">>,
          <<"{", Quote("url"), ":">>,
          Render(JObj([method |-> JStr("GET")]), FALSE) \o <<" ", "}">>,
          <<"{", Quote("method"), ":", Quote("POST"), ",", Quote("timeout"), ":", "1", "}">>,
          <<>>}

GatewayOutputs ==
    {Pad(l) \o core \o [i \in 1..r |-> "\n"] :
        l \in 0..MaxPad, r \in 0..MaxPad, core \in ClassificationCores}

\* what requests.request may do: return a response body, or raise
HttpBodies == {<<"price", ":", "75">>}
HttpCauses == {"timeout", "refused"}

\* what the Gateway may return for the summary prompt
Summaries == {<<" ", "The", " ", "summary", "\n">>}

(***************************************************************************)
(* State of one run of the try block of user_to_llm.                       *)
(***************************************************************************)
VARIABLES
    pc,           \* the position of the run
    given,        \* how user_input was composed (auxiliary)
    user_input,   \* the text read from the user
    raw,          \* the Gateway's classification output: <<"unset", <<>>>> or <<"text", t>>
    result,       \* what prompt_to_api returned: <<"unset", <<>>>>, <<"str", t>>, <<"dict", d>>
    http_outcome, \* what requests.request did: <<"none", "">>, <<"returned", "">>, <<"raised", cause>>
    response,     \* what run_api returned: <<"unset", <<>>>> or <<"text", t>>
    calls,        \* the external calls made so far, in order
    raised,       \* the steps of the run that raised an exception, in order
    outcome       \* what the run printed: <<"none", <<>>>>, <<"Answer", t>>,
                  \* <<"ExecutionResult", t>>, <<"Error", e>>

vars == <<pc, given, user_input, raw, result, http_outcome, response, calls, raised, outcome>>

Init ==
    /\ pc = "prompt_to_api"
    /\ given \in UserShapes
    /\ user_input = UserText(given)
    /\ raw = <<"unset", <<>>>>
    /\ result = <<"unset", <<>>>>
    /\ http_outcome = <<"none", "">>
    /\ response = <<"unset", <<>>>>
    /\ calls = <<>>
    /\ raised = <<>>
    /\ outcome = <<"none", <<>>>>

\* prompt_to_api up to the Gateway call: the literal fast path
PromptLiteral ==
    /\ pc = "prompt_to_api"
    /\ LET lit == LiteralFastPath(user_input) IN
       IF lit.matched
       THEN /\ result' = <<"dict", lit.spec>>
            /\ pc' = "isinstance"
            /\ calls' = calls
       ELSE /\ result' = result
            /\ pc' = "classifying"
            /\ calls' = Append(calls, <<"classify", ClassifyPrompt(user_input)>>)
    /\ UNCHANGED <<given, user_input, raw, http_outcome, response, outcome, raised>>

\* llm.invoke returns the classification; prompt_to_api runs to its return
ClassifyReturn ==
    /\ pc = "classifying"
    /\ \E out \in GatewayOutputs :
         /\ raw' = <<"text", out>>
         /\ result' = ResultOfClassification(out)
    /\ pc' = "isinstance"
    /\ UNCHANGED <<given, user_input, http_outcome, response, calls, outcome, raised>>

\* llm.invoke raises during classification: the except clause of user_to_llm
ClassifyRaise ==
    /\ pc = "classifying"
    /\ pc' = "done"
    /\ raised' = Append(raised, "classify")
    /\ outcome' = <<"Error", <<"gateway">>>>
    /\ UNCHANGED <<given, user_input, raw, result, http_outcome, response, calls>>

\* user_to_llm: isinstance(result, dict), and the plain-text print
Dispatch ==
    /\ pc = "isinstance"
    /\ IF AfterPromptToApi(result) = "print"
       THEN /\ pc' = "done"
            /\ outcome' = <<"Answer", result[2]>>
       ELSE /\ pc' = AfterPromptToApi(result)
            /\ outcome' = outcome
    /\ UNCHANGED <<given, user_input, raw, result, http_outcome, response, calls, raised>>

\* run_api up to requests.request; method.upper() on a non-string raises
\* inside the try and run_api returns the failure text at once
RunApi ==
    /\ pc = "run_api"
    /\ LET spec == result[2]
           method == DictGet(spec, "method", JStr("GET"))
           url == DictGet(spec, "url", JStr(DEFAULT_URL))
           headers == DictGet(spec, "headers", None)
           payload == DictGet(spec, "payload", None)
       IN IF IsStrValue(method)
          THEN /\ calls' = Append(calls, <<"http", RequestArgs(method, url, headers, payload)>>)
               /\ pc' = "requesting"
               /\ response' = response
               /\ raised' = raised
          ELSE /\ calls' = calls
               /\ pc' = "describe"
               /\ raised' = Append(raised, "method.upper")
               /\ response' = <<"text", FailureText("AttributeError")>>
    /\ UNCHANGED <<given, user_input, raw, result, http_outcome, outcome>>

\* requests.request returns: run_api returns r.text
HttpReturn ==
    /\ pc = "requesting"
    /\ \E body \in HttpBodies : response' = <<"text", body>>
    /\ http_outcome' = <<"returned", "">>
    /\ pc' = "describe"
    /\ UNCHANGED <<given, user_input, raw, result, calls, outcome, raised>>

\* requests.request raises: run_api returns the failure text
HttpFail ==
    /\ pc = "requesting"
    /\ \E cause \in HttpCauses :
         /\ response' = <<"text", FailureText(cause)>>
         /\ http_outcome' = <<"raised", cause>>
    /\ raised' = Append(raised, "requests.request")
    /\ pc' = "describe"
    /\ UNCHANGED <<given, user_input, raw, result, calls, outcome>>

\* describe_response calls llm.invoke
DescribeInvoke ==
    /\ pc = "describe"
    /\ calls' = Append(calls, <<"summarize", DescribePrompt(response[2])>>)
    /\ pc' = "describing"
    /\ UNCHANGED <<given, user_input, raw, result, http_outcome, response, outcome, raised>>

\* llm.invoke returns the summary; it is stripped and printed
DescribeReturn ==
    /\ pc = "describing"
    /\ \E summary \in Summaries : outcome' = <<"ExecutionResult", Strip(summary)>>
    /\ pc' = "done"
    /\ UNCHANGED <<given, user_input, raw, result, http_outcome, response, calls, raised>>

\* llm.invoke raises during summarization: the except clause of user_to_llm
DescribeRaise ==
    /\ pc = "describing"
    /\ pc' = "done"
    /\ raised' = Append(raised, "summarize")
    /\ outcome' = <<"Error", <<"gateway">>>>
    /\ UNCHANGED <<given, user_input, raw, result, http_outcome, response, calls>>

Next ==
    \/ PromptLiteral
    \/ ClassifyReturn
    \/ ClassifyRaise
    \/ Dispatch
    \/ RunApi
    \/ HttpReturn
    \/ HttpFail
    \/ DescribeInvoke
    \/ DescribeReturn
    \/ DescribeRaise

Spec == Init /\ [][Next]_vars

TypeOK ==
    /\ pc \in {"prompt_to_api", "classifying", "isinstance", "run_api",
               "requesting", "describe", "describing", "done"}
    /\ given \in UserShapes
(***************************************************************************)
(* Vocabulary of the properties.                                           *)
(***************************************************************************)
CallsOf(kind) == {i \in 1..Len(calls) : calls[i][1] = kind}

\* s is t without its surrounding whitespace
IsTrimOf(s, t) ==
    \E i \in 1..(Len(t) + 1) : \E j \in 0..Len(t) :
        /\ s = SubSeq(t, i, j)
        /\ \A k \in 1..(i - 1) : IsSpace(t[k])
        /\ \A k \in (j + 1)..Len(t) : IsSpace(t[k])
        /\ s # <<>> => (~IsSpace(s[1]) /\ ~IsSpace(s[Len(s)]))

\* the plain-answer marker occurs somewhere in t
HasPlainMarker(t) ==
    \E i \in 1..(Len(t) - 1) : t[i] = "PLAIN_TEXT" /\ t[i + 1] = ":"

\* the user text carries the payload marker followed by a brace-delimited
\* span (first brace after the marker to the last closing brace of the text)
\* that is a well-formed JSON object
WellFormedLiteral(g) ==
    /\ g.marker
    /\ \/ g.body \in {"empty", "nested"} /\ g.suf # "brace"
       \/ g.body = "open" /\ g.suf = "brace"

\* the object written after the payload marker of such a text
LiteralObject(g) ==
    IF g.body = "open" THEN JObj([a |-> JNum("1")]) ELSE BodyObject(g)

\* the user text has no payload marker, or what follows the marker up to the
\* last closing brace of the text is not valid JSON
NoLiteral(g) ==
    \/ ~g.marker
    \/ g.body \in {"bad", "none"}
    \/ g.body = "open" /\ g.suf # "brace"
    \/ g.body \in {"empty", "nested"} /\ g.suf = "brace"

\* the value of the first URL marker of the user text, else the fallback URL
MarkedUrl(g) ==
    IF g.pre = "url" THEN "http://target/admin"
    ELSE IF g.marker /\ g.suf = "url" THEN "http://other/x"
    ELSE DEFAULT_URL

\* the method requests puts on the wire (it upper-cases the argument)
WireMethod(req) == Upper(req.method)

(***************************************************************************)
(* C1: every HTTP request the pipeline dispatches has method GET or POST,  *)
(* whatever the user text and the Gateway output.                          *)
(* Fails: the method of the classifier's object is passed on unchecked.    *)
(***************************************************************************)
C1_OnlyGetOrPost ==
    \A i \in CallsOf("http") : WireMethod(calls[i][2]) \in {"GET", "POST"}

Rank(kind) == CASE kind = "classify" -> 1 [] kind = "http" -> 2 [] kind = "summarize" -> 3

C3_CallOrder ==
    /\ \A i \in 1..Len(calls) : \A j \in 1..Len(calls) :
          i < j => Rank(calls[i][1]) < Rank(calls[j][1])
    /\ Cardinality(CallsOf("classify") \cup CallsOf("summarize")) <= 2
    /\ Cardinality(CallsOf("http")) <= 1
    /\ pc = "requesting" => CallsOf("summarize") = {}
    /\ \A i \in CallsOf("summarize") :
          /\ response[1] = "text"
          /\ CallsOf("http") # {} => http_outcome[1] # "none"
          /\ SubSeq(calls[i][2], 6, Len(calls[i][2])) = response[2]

C3_Witness ==
    /\ pc = "done"
    /\ Len(calls) = 3
    /\ outcome[1] = "ExecutionResult"

(***************************************************************************)
(* C4: when requests.request raises, run_api returns the text              *)
(* "Request failed: <cause>", the Summarizer is called with exactly that   *)
(* text, and the run does not end in an error because of the HTTP call.    *)
(***************************************************************************)
C4_TransportFailure ==
    http_outcome[1] = "raised" =>
        /\ response = <<"text", <<"Request failed: ", http_outcome[2]>>>>
        /\ pc \in {"describe", "describing", "done"}
        /\ pc # "describe" =>
              /\ calls[Len(calls)][1] = "summarize"
              /\ calls[Len(calls)][2] =
                    <<"SUMMARIZE_INSTRUCTION", "\n", "\n", "API response:", "\n",
                      "Request failed: ", http_outcome[2]>>

C4_Witness ==
    /\ http_outcome = <<"raised", "refused">>
    /\ pc = "done"
    /\ outcome[1] = "ExecutionResult"

(***************************************************************************)
(* C5: when the classification output starts with "PLAIN_TEXT:", the run   *)
(* ends in an Answer whose text is the output without the marker and       *)
(* without surrounding whitespace; no HTTP call and no summarize is made.  *)
(***************************************************************************)
C5_PlainAnswer ==
    (raw[1] = "text" /\ StartsWith(raw[2], <<"PLAIN_TEXT", ":">>)) =>
        /\ result[1] = "str"
        /\ IsTrimOf(result[2], SubSeq(raw[2], 3, Len(raw[2])))
        /\ CallsOf("http") = {}
        /\ CallsOf("summarize") = {}
        /\ pc \in {"isinstance", "done"}
        /\ pc = "done" => outcome = <<"Answer", result[2]>>

C5_Witness ==
    /\ raw[1] = "text"
    /\ StartsWith(raw[2], <<"PLAIN_TEXT", ":", " ">>)
    /\ IsSpace(raw[2][Len(raw[2])])
    /\ pc = "done"
    /\ outcome = <<"Answer", <<"hi", " ", "there">>>>

(***************************************************************************)
(* C6: when the classification output has no plain-answer marker and no    *)
(* brace-delimited span of it parses as JSON, the run ends in an Answer    *)
(* whose text is the Gateway's raw output verbatim; no HTTP call is made.  *)
(* Fails as stated: prompt_to_api strips the output before returning it.   *)
(***************************************************************************)
NoSpanParses(t) ==
    \A i \in Positions(t, "{") : \A j \in Positions(t, "}") :
        i < j => ~JsonLoads(SubSeq(t, i, j)).ok

Unparsed(t) == ~HasPlainMarker(t) /\ NoSpanParses(t)

C6_RawVerbatim ==
    (raw[1] = "text" /\ pc = "done" /\ Unparsed(raw[2])) =>
        /\ outcome = <<"Answer", raw[2]>>
        /\ CallsOf("http") = {}

\* C6 as amended: the Answer is the Gateway's output with its surrounding
\* whitespace trimmed (otherwise unchanged); no HTTP call is made.
\* Stated of the state in which prompt_to_api has just returned and of every
\* later state of a run in which it returned a text.
C6_TrimmedAnswer ==
    (raw[1] = "text" /\ (pc = "isinstance" \/ result[1] = "str") /\ Unparsed(raw[2])) =>
        /\ result[1] = "str"
        /\ IsTrimOf(result[2], raw[2])
        /\ CallsOf("http") = {}
        /\ pc \in {"isinstance", "done"}
        /\ pc = "done" => outcome = <<"Answer", result[2]>>

C6_Witness ==
    /\ raw = <<"text", <<" ", "{", "oops", "}", "\n">>>>
    /\ pc = "done"
    /\ outcome = <<"Answer", <<"{", "oops", "}">>>>

(***************************************************************************)
(* C7: for a parsed candidate object the defaulting sets headers to the    *)
(* JSON content type only when the headers key is absent, payload to null  *)
(* only when the payload key is absent, url to the fallback only when url  *)
(* is absent or empty, and leaves everything else as the classifier gave   *)
(* it.  Fails as stated: a url of null is replaced by the fallback too.    *)
(***************************************************************************)
\* the object the classifier gave, when the run normalized one
ClassifiedObject == ExtractJsonBlock(Strip(raw[2]))[2]

\* prompt_to_api has just returned a spec it built from the classification
NormalizedRun == pc = "isinstance" /\ raw[1] = "text" /\ result[1] = "dict"

DefaultedWhenAbsent(cand, norm, key, default) ==
    norm[key] = IF key \in DOMAIN cand THEN cand[key] ELSE default

KeptOtherwise(cand, norm) ==
    /\ DOMAIN norm = DOMAIN cand \cup {"headers", "payload", "url"}
    /\ \A k \in DOMAIN cand \ {"headers", "payload", "url"} : norm[k] = cand[k]
    /\ DefaultedWhenAbsent(cand, norm, "headers",
                           JObj("Content-Type" :> JStr("application/json")))
    /\ DefaultedWhenAbsent(cand, norm, "payload", None)

C7_DefaultsOnlyAbsentOrEmpty ==
    NormalizedRun =>
        LET cand == ClassifiedObject
            norm == result[2]
        IN /\ KeptOtherwise(cand, norm)
           /\ norm["url"] = IF "url" \notin DOMAIN cand \/ cand["url"] = JStr("")
                            THEN JStr(DEFAULT_URL) ELSE cand["url"]

\* C7 as amended: url is replaced by the fallback only when it is absent,
\* empty or null (a value Python treats as false).
C7_DefaultsOnlyAbsentOrFalsy ==
    NormalizedRun =>
        LET cand == ClassifiedObject
            norm == result[2]
        IN /\ KeptOtherwise(cand, norm)
           /\ norm["url"] = IF \/ "url" \notin DOMAIN cand
                               \/ cand["url"] \in {JStr(""), None, JNum("0"), JObj(EmptyDict)}
                            THEN JStr(DEFAULT_URL) ELSE cand["url"]

C7_Witness ==
    /\ NormalizedRun
    /\ "headers" \in DOMAIN ClassifiedObject
    /\ "url" \in DOMAIN ClassifiedObject
    /\ ClassifiedObject["url"] = None
    /\ result[2]["headers"] = JObj([a |-> JStr("s")])
    /\ result[2]["url"] = JStr(DEFAULT_URL)

(***************************************************************************)
(* C8: every call of run_api dispatches exactly one HTTP request: for GET  *)
(* without a body and with a mapping payload as query parameters (any      *)
(* other payload as nothing), otherwise with the payload as JSON body.     *)
(* Fails: a method that is not a string makes run_api return the failure   *)
(* text without dispatching anything.                                      *)
(***************************************************************************)
C8_OneRequestPerCall ==
    (result[1] = "dict" /\ response[1] = "text") =>
        /\ Cardinality(CallsOf("http")) = 1
        /\ \A i \in CallsOf("http") :
              LET req == calls[i][2]
                  payload == result[2]["payload"]
              IN IF WireMethod(req) = "GET"
                 THEN /\ req.json = None
                      /\ req.params = IF payload[1] = "obj" THEN payload ELSE None
                 ELSE /\ req.json = payload
                      /\ req.params = None

(***************************************************************************)
(* C9: when the user text has no payload marker, or what follows the       *)
(* marker is not valid JSON, the fast path declines without raising and    *)
(* the Gateway is invoked for classification exactly once, with the        *)
(* original user text in its prompt.                                       *)
(***************************************************************************)
C9_DeclineThenClassify ==
    (NoLiteral(given) /\ pc # "prompt_to_api") =>
        LET text == UserText(given) IN
        /\ Cardinality(CallsOf("classify")) = 1
        /\ calls[1][1] = "classify"
        /\ user_input = text
        /\ Len(calls[1][2]) = Len(text) + 8
        /\ SubSeq(calls[1][2], 6, 5 + Len(text)) = text

C9_Witness ==
    /\ given.marker /\ given.body = "nested" /\ given.suf = "brace"
    /\ pc = "done"
    /\ Len(calls) = 3

(***************************************************************************)
(* C10: when the classification output does not start with the plain       *)
(* marker and the block parser finds a span that parses as a JSON object   *)
(* (an object with no keys included), the run normalizes, makes exactly    *)
(* one HTTP call, summarizes, and ends in an ExecutionResult.              *)
(* Fails: an object with no keys is falsy and is returned as an Answer.    *)
(***************************************************************************)
ParsedBlock(t) ==
    /\ ~HasPlainMarker(t)
    /\ \E i \in 1..Len(t) : \E j \in 1..Len(t) :
          /\ i < j /\ t[i] = "{" /\ t[j] = "}"
          /\ \A k \in 1..(i - 1) : t[k] # "{"
          /\ \A k \in (j + 1)..Len(t) : t[k] # "}"
          /\ JsonLoads(SubSeq(t, i, j)).ok

C10_ParsedObjectExecutes ==
    (raw[1] = "text" /\ pc = "done" /\ outcome[1] # "Error" /\ ParsedBlock(raw[2])) =>
        /\ outcome[1] = "ExecutionResult"
        /\ Cardinality(CallsOf("http")) = 1
        /\ Cardinality(CallsOf("summarize")) = 1

(***************************************************************************)
(* C11: every HTTP call of run_api uses a fixed connect timeout of 2       *)
(* seconds and a separate read timeout that the caller can override.       *)
(* Fails as stated: run_api passes timeout=30, one number for both phases, *)
(* and has no timeout parameter.                                           *)
(***************************************************************************)
C11_ConnectTimeoutTwo ==
    \A i \in CallsOf("http") : ConnectTimeout(calls[i][2]) = 2

\* C11 as amended: every HTTP call of run_api uses the one fixed timeout of
\* 30 seconds for the connect and the read phase alike, whatever the spec
\* carries (a "timeout" key of the spec does not change it).
C11_FixedTimeoutThirty ==
    \A i \in CallsOf("http") :
        /\ ConnectTimeout(calls[i][2]) = 30
        /\ ReadTimeout(calls[i][2]) = 30

C11_Witness ==
    /\ result[1] = "dict"
    /\ "timeout" \in DOMAIN result[2]
    /\ result[2]["timeout"] = JNum("1")
    /\ CallsOf("http") # {}
    /\ \A i \in CallsOf("http") : calls[i][2].timeout = 30
    /\ http_outcome[1] = "returned"

(***************************************************************************)
(* C12: an exception raised by the Gateway (classifying or summarizing) or *)
(* by any other step that is not the HTTP transport ends the run in an     *)
(* error outcome, neither an Answer nor an ExecutionResult; when it is     *)
(* raised during classification the run makes no HTTP call.                *)
(* Fails: run_api's try also catches the AttributeError of method.upper()  *)
(* on a non-string method and returns it as the "Request failed" text,     *)
(* which is summarized into an ExecutionResult.                            *)
(***************************************************************************)
RaisedAt(step) == \E i \in 1..Len(raised) : raised[i] = step

C12_ExceptionsEndInError ==
    pc = "done" =>
        /\ (\E i \in 1..Len(raised) : raised[i] # "requests.request") =>
              /\ outcome[1] = "Error"
              /\ outcome[1] \notin {"Answer", "ExecutionResult"}
        /\ RaisedAt("classify") => CallsOf("http") = {}

(***************************************************************************)
(* C13: the defaulting of prompt_to_api is idempotent: applied to a spec   *)
(* it has already normalized it yields the same spec, for every candidate  *)
(* object the classifier gives.                                            *)
(***************************************************************************)
C13_NormalizeIdempotent ==
    NormalizedRun => Normalize(result[2]) = result[2]

C13_Witness ==
    /\ NormalizedRun
    /\ DOMAIN ClassifiedObject = {"method", "url"}
    /\ ClassifiedObject["url"] = JStr("")
    /\ DOMAIN result[2] = {"method", "url", "headers", "payload"}
    /\ Normalize(result[2]) = result[2]

=============================================================================
